---- MODULE Spec2Model ----
(***************************************************************************)
(* Model of the 3v3 solo queue matchmaking composer: candidate selection   *)
(* (MatchmakingComposer::SelectCandidates) and the exhaustive team split   *)
(* (MatchmakingComposer::FindBestTeamSplit / Enumerate), in the variant    *)
(* with the single-healer timer and the class-stacking filter; and of the  *)
(* matchmaking tick Solo3v3::CheckSolo3v3Arena on the battleground queue.  *)
(***************************************************************************)
EXTENDS Integers, Sequences, FiniteSets, TLC

(***************************************************************************)
(* uint32_t timestamps.  A value v is kept as the pair <<v \div 2^16,      *)
(* v % 2^16>> so that sums are computed exactly modulo 2^32.               *)
(***************************************************************************)
Half == 65536

U32(hi, lo) == <<hi, lo>>

\* a + b in uint32_t arithmetic (wraps modulo 2^32)
Add32(a, b) ==
    LET lo == a[2] + b[2]
        hi == a[1] + b[1] + (lo \div Half)
    IN  <<hi % Half, lo % Half>>

\* a <= b on uint32_t
Le32(a, b) == a[1] < b[1] \/ (a[1] = b[1] /\ a[2] <= b[2])

\* the exact (unbounded integer) sum a + b compared with c: a + b > c
ExactSumGt(a, b, c) ==
    LET lo == a[2] + b[2]
        hi == a[1] + b[1] + (lo \div Half)
    IN  hi > c[1] \/ (hi = c[1] /\ (lo % Half) > c[2])

(***************************************************************************)
(* Inputs.                                                                 *)
(***************************************************************************)
\* longest queue handed to SelectCandidates
MaxPool == 7

\* longest list handed to FindBestTeamSplit
MaxSelected == 6

\* PlayerRole
Roles == {"DPS", "HEALER"}

\* players per team: 1 (arena testing), 2, 3 (solo 3v3)
TeamSizes == {1, 2, 3}

\* queue join timestamps (ms): 0, 60000, 2^32 - 60000
JoinTimes == <<U32(0, 0), U32(0, 60000), U32(65535, 5536)>>

\* fallback timers (ms): 30000, 60000
Timers == {U32(0, 30000), U32(0, 60000)}

\* current time (ms): 30000, 65000, 2^32 - 1
Nows == {U32(0, 30000), U32(0, 65000), U32(65535, 65535)}

DEFAULT_MMR == 1500

\* TeamId
TEAM_ALLIANCE == 0
TEAM_HORDE == 1
TeamIds == {TEAM_ALLIANCE, TEAM_HORDE}

PVP_TEAMS_COUNT == 2

\* BattlegroundQueueGroupTypes, the indices of m_QueuedGroups[bracket_id]
BG_QUEUE_PREMADE_ALLIANCE == 0
BG_QUEUE_PREMADE_HORDE == 1
BG_QUEUE_NORMAL_ALLIANCE == 2
BG_QUEUE_NORMAL_HORDE == 3
BucketIds == {BG_QUEUE_PREMADE_ALLIANCE, BG_QUEUE_PREMADE_HORDE,
              BG_QUEUE_NORMAL_ALLIANCE, BG_QUEUE_NORMAL_HORDE}

VARIABLES
    candidates,            \* the queue handed to SelectCandidates, in arrival order
    selected,              \* the list handed to FindBestTeamSplit
    teamSize,
    filterTalents,
    allDpsTimer,
    singleHealerDpsTimer,
    now,
    allDpsMatch,
    selectReturn,          \* return value of SelectCandidates
    preventClassStacking,
    classStackMask,
    result,                \* TeamSplitResult
    pc,                    \* "idle", "select" (after SelectCandidates), "split" (after
                           \* FindBestTeamSplit), "enumerate" (after EnumerateCombinations)
    ignores,               \* <<a, b>>: player a has player b on the ignore list
    avoidIgnore,           \* Solo.3v3.AvoidSameTeamIgnore
    best,                  \* haveBest, bestDiff, bestIgnores, bestTeam1 of CheckSolo3v3Arena
    classIdArg,            \* the two class ids last handed to ClassIdToMaskBit
    maskBitRet,            \* the two bits it returned
    queuedGroups,          \* queue->m_QueuedGroups[bracket_id]: bucket index -> groups
    selectionPools,        \* queue->m_SelectionPools: team -> ids of the groups added
    allCandidates,         \* the list built by phase 1 of CheckSolo3v3Arena
    queuedAtEntry,         \* m_QueuedGroups as it was when CheckSolo3v3Arena was entered
    tickReturn,            \* return value of CheckSolo3v3Arena
    gameTime,              \* GameTime::GetGameTimeMS(), in ms
    isRated,               \* the queue's isRated
    arenaTesting           \* sBattlegroundMgr->isArenaTesting()

\* the state of the ignore-list tie-break of Solo3v3
ignoreVars == <<ignores, avoidIgnore, best>>

\* the argument and return value of ClassIdToMaskBit
maskVars == <<classIdArg, maskBitRet>>

\* the battleground queue that Solo3v3::CheckSolo3v3Arena works on
tickVars == <<queuedGroups, selectionPools, allCandidates, queuedAtEntry, tickReturn,
              gameTime, isRated, arenaTesting>>

vars == <<candidates, selected, teamSize, filterTalents, allDpsTimer,
          singleHealerDpsTimer, now, allDpsMatch, selectReturn,
          preventClassStacking, classStackMask, result, pc,
          ignores, avoidIgnore, best, classIdArg, maskBitRet,
          queuedGroups, selectionPools, allCandidates, queuedAtEntry, tickReturn,
          gameTime, isRated, arenaTesting>>

\* struct QueuedCandidate
QueuedCandidate(id, role, mmr, joinTime, classId) ==
    [id |-> id, role |-> role, mmr |-> mmr, joinTime |-> joinTime, classId |-> classId]

\* an invalid result that keeps a team and a difference
EmptyResult_Stale == [valid |-> FALSE, team1Indices |-> <<0>>, team2Indices |-> <<>>, mmrDiff |-> 1]

\* struct TeamSplitResult, default-constructed
EmptyResult == [valid |-> FALSE, team1Indices |-> <<>>, team2Indices |-> <<>>, mmrDiff |-> 0]

(***************************************************************************)
(* Phase 2: SelectCandidates.                                              *)
(***************************************************************************)
IsHealer(c) == c.role = "HEALER"
IsDps(c) == c.role # "HEALER"

\* the last k elements of s: picks the newest instead of the oldest
Take_Newest(s, k) == SubSeq(s, Len(s) - k + 1, Len(s))

\* the first k elements of s
Take(s, k) == SubSeq(s, 1, k)

\* c.joinTime + timer <= now, the sum taken in uint32_t
TimerElapsed(c, timer, t) == Le32(Add32(c.joinTime, timer), t)

\* one healer in total instead of one per team
HealersNeeded_One(ts) == IF ts > 1 THEN 1 ELSE 0

HealersNeeded(ts) == IF ts > 1 THEN 2 ELSE 0

DpsNeeded(ts) == ts * 2 - HealersNeeded(ts)

\* a fallback that needs one more waiting DPS than a match holds
TimedDpsFallback_OneMore(dps, ts, timer, t) ==
    LET timedDps == SelectSeq(dps, LAMBDA c : Le32(Add32(c.joinTime, timer), t))
    IN  IF Len(timedDps) > ts * 2
        THEN [ok |-> TRUE, selected |-> SubSeq(timedDps, 1, ts * 2), allDpsMatch |-> TRUE]
        ELSE [ok |-> FALSE, selected |-> <<>>, allDpsMatch |-> FALSE]

\* the all-DPS fallback shared by the no-healer and the single-healer branch
TimedDpsFallback(dps, ts, timer, t) ==
    LET timedDps == SelectSeq(dps, LAMBDA c : TimerElapsed(c, timer, t))
    IN  IF Len(timedDps) >= ts * 2
        THEN [ok |-> TRUE, selected |-> Take(timedDps, ts * 2), allDpsMatch |-> TRUE]
        ELSE [ok |-> FALSE, selected |-> <<>>, allDpsMatch |-> FALSE]

\* a selection without the minimum-pool check: a short pool is taken whole
SelectCandidates_NoSizeCheck(cands, ts, ft, dpsTimer, oneHealerTimer, t) ==
    IF ~ft
    THEN [ok |-> TRUE,
          selected |-> SubSeq(cands, 1, IF Len(cands) < ts * 2 THEN Len(cands) ELSE ts * 2),
          allDpsMatch |-> FALSE]
    ELSE [ok |-> FALSE, selected |-> <<>>, allDpsMatch |-> FALSE]

\* a selection that, without role filtering, hands out the first ts * 2
\* candidates with the healers moved to the front
SelectCandidates_HealersFirst(cands, ts, ft, dpsTimer, oneHealerTimer, t) ==
    IF Len(cands) < ts * 2 \/ ft
    THEN [ok |-> FALSE, selected |-> <<>>, allDpsMatch |-> FALSE]
    ELSE [ok |-> TRUE,
          selected |-> SelectSeq(SubSeq(cands, 1, ts * 2), IsHealer)
                           \o SelectSeq(SubSeq(cands, 1, ts * 2), IsDps),
          allDpsMatch |-> FALSE]

SelectCandidates(cands, ts, ft, dpsTimer, oneHealerTimer, t) ==
    LET healers == SelectSeq(cands, IsHealer)
        dps     == SelectSeq(cands, IsDps)
    IN  IF Len(cands) < ts * 2
        THEN [ok |-> FALSE, selected |-> <<>>, allDpsMatch |-> FALSE]
        ELSE IF ~ft
        THEN [ok |-> TRUE, selected |-> Take(cands, ts * 2), allDpsMatch |-> FALSE]
        ELSE IF Len(healers) >= HealersNeeded(ts) /\ Len(dps) >= DpsNeeded(ts)
        THEN [ok |-> TRUE,
              selected |-> Take(healers, HealersNeeded(ts)) \o Take(dps, DpsNeeded(ts)),
              allDpsMatch |-> FALSE]
        ELSE IF Len(healers) = 0
        THEN TimedDpsFallback(dps, ts, dpsTimer, t)
        ELSE IF Len(healers) = 1
        THEN TimedDpsFallback(dps, ts, oneHealerTimer, t)
        ELSE [ok |-> FALSE, selected |-> <<>>, allDpsMatch |-> FALSE]

\* MatchmakingComposer::SelectCandidates in the variant without the
\* single-healer timer
SelectCandidatesNoHealerTimer(cands, ts, ft, dpsTimer, t) ==
    LET healers  == SelectSeq(cands, IsHealer)
        dps      == SelectSeq(cands, IsDps)
        timedDps == SelectSeq(dps, LAMBDA c : Le32(Add32(c.joinTime, dpsTimer), t))
    IN  IF Len(cands) < ts * 2
        THEN [ok |-> FALSE, selected |-> <<>>, allDpsMatch |-> FALSE]
        ELSE IF ~ft
        THEN [ok |-> TRUE, selected |-> Take(cands, ts * 2), allDpsMatch |-> FALSE]
        ELSE IF Len(healers) >= HealersNeeded(ts) /\ Len(dps) >= DpsNeeded(ts)
        THEN [ok |-> TRUE,
              selected |-> Take(healers, HealersNeeded(ts)) \o Take(dps, DpsNeeded(ts)),
              allDpsMatch |-> FALSE]
        ELSE IF Len(healers) = 0 /\ Len(timedDps) >= ts * 2
        THEN [ok |-> TRUE, selected |-> Take(timedDps, ts * 2), allDpsMatch |-> TRUE]
        ELSE [ok |-> FALSE, selected |-> <<>>, allDpsMatch |-> FALSE]

(***************************************************************************)
(* Phase 3: FindBestTeamSplit.  Indices into the selected list are 0-based *)
(* as in the code; selected[i] of the code is sel[i + 1] here.             *)
(***************************************************************************)
\* 1u << k
Shl1(k) == 2 ^ k

\* faulty variant: class 10 is given a slot of its own
ClassIdToMaskBit_TenSlot(classId) ==
    IF classId >= 1 /\ classId <= 10 THEN Shl1(classId - 1)
    ELSE IF classId = 11 THEN Shl1(10)
    ELSE 0

ClassIdToMaskBit(classId) ==
    IF classId >= 1 /\ classId <= 9 THEN Shl1(classId - 1)
    ELSE IF classId = 11 THEN Shl1(10)
    ELSE 0

\* faulty variant: the mask is not looked at
MaskAnd_Any(mask, bit) == bit

\* mask & bit, for bit zero or a single set bit
MaskAnd(mask, bit) ==
    IF bit = 0 THEN 0
    ELSE IF (mask \div bit) % 2 = 1 THEN bit ELSE 0

\* faulty variant: level 1 looks at DPS pairs only, like levels 2 to 4
LevelConflict_DpsAtOne(a, b, preventLevel) ==
    CASE preventLevel \in {1, 2, 3, 4} -> a.role = "DPS" /\ b.role = "DPS"
      [] preventLevel \in {5, 6} -> TRUE
      [] OTHER -> FALSE

\* faulty variant: cases 2 and 3 do not fall through to case 4
LevelConflict_FourOnly(a, b, preventLevel) ==
    CASE preventLevel = 1 -> TRUE
      [] preventLevel = 4 -> a.role = "DPS" /\ b.role = "DPS"
      [] preventLevel \in {5, 6} -> TRUE
      [] OTHER -> FALSE

\* the switch on preventLevel for a same-class pair a, b that passed the mask
LevelConflict(a, b, preventLevel) ==
    LET aIsMelee  == a.role = "DPS"
        aIsHealer == a.role = "HEALER"
        bIsMelee  == b.role = "DPS"
        bIsHealer == b.role = "HEALER"
    IN  CASE preventLevel = 1 -> TRUE
          [] preventLevel \in {2, 3, 4} -> aIsMelee /\ bIsMelee
          [] preventLevel \in {5, 6} -> (aIsMelee \/ aIsHealer) /\ (bIsMelee \/ bIsHealer)
          [] OTHER -> FALSE

\* the body of the double loop for one pair a, b
PairConflict(a, b, preventLevel, classMask) ==
    /\ a.classId = b.classId
    /\ ~(classMask # 0 /\ MaskAnd(classMask, ClassIdToMaskBit(a.classId)) = 0)
    /\ LevelConflict(a, b, preventLevel)

HasClassStackingConflict(indices, pool, preventLevel, classMask) ==
    \E i \in 1..Len(indices) : \E j \in (i + 1)..Len(indices) :
        PairConflict(pool[indices[i] + 1], pool[indices[j] + 1], preventLevel, classMask)

\* faulty variant: the cursor test compares with the wrong index, so members of team1 are kept
RECURSIVE ComplementLoop_NoSkip(_, _, _, _, _)
ComplementLoop_NoSkip(i, ci, team1, limit, n) ==
    IF i >= n THEN <<>>
    ELSE IF ci < limit /\ team1[ci + 1] = i + 1
         THEN ComplementLoop_NoSkip(i + 1, ci + 1, team1, limit, n)
         ELSE <<i>> \o ComplementLoop_NoSkip(i + 1, ci, team1, limit, n)

\* faulty variant: the loop stops one index early
RECURSIVE ComplementLoop_Short(_, _, _, _, _)
ComplementLoop_Short(i, ci, team1, limit, n) ==
    IF i >= n - 1 THEN <<>>
    ELSE IF ci < limit /\ team1[ci + 1] = i
         THEN ComplementLoop_Short(i + 1, ci + 1, team1, limit, n)
         ELSE <<i>> \o ComplementLoop_Short(i + 1, ci, team1, limit, n)

\* the merge loop that builds the complement of an increasing index list
\* within [0, n): i is the loop index, ci the cursor into team1
RECURSIVE ComplementLoop(_, _, _, _, _)
ComplementLoop(i, ci, team1, limit, n) ==
    IF i >= n THEN <<>>
    ELSE IF ci < limit /\ team1[ci + 1] = i
         THEN ComplementLoop(i + 1, ci + 1, team1, limit, n)
         ELSE <<i>> \o ComplementLoop(i + 1, ci, team1, limit, n)

\* number of healers among the candidates at the given indices
RECURSIVE CountHealers(_, _)
CountHealers(indices, sel) ==
    IF indices = <<>> THEN 0
    ELSE (IF sel[indices[1] + 1].role = "HEALER" THEN 1 ELSE 0)
         + CountHealers(Tail(indices), sel)

\* int64 sum of the mmr of the candidates at the given indices
RECURSIVE SumMMR(_, _)
SumMMR(indices, sel) ==
    IF indices = <<>> THEN 0
    ELSE sel[indices[1] + 1].mmr + SumMMR(Tail(indices), sel)

AbsDiff(x, y) == IF x > y THEN x - y ELSE y - x

\* faulty variant: only the first team's healers are counted
RoleReject_Team1Only(h1, h2, allDps) ==
    \/ allDps /\ h1 # 0
    \/ ~allDps /\ h1 # 1

\* the composition constraint: TRUE when the partition is rejected
RoleReject(h1, h2, allDps) ==
    \/ allDps /\ (h1 # 0 \/ h2 # 0)
    \/ ~allDps /\ (h1 # 1 \/ h2 # 1)

\* faulty variant: the comparison is reversed
Better_Reversed(haveBest, diff, bestDiff) == ~haveBest \/ diff > bestDiff

\* faulty variant: a later combination of equal difference replaces the best
Better_OrEqual(haveBest, diff, bestDiff) == ~haveBest \/ diff <= bestDiff

\* the replacement test of the running best
Better(haveBest, diff, bestDiff) == ~haveBest \/ diff < bestDiff

\* Enumerate at depth == teamSize: filter and score the partition (combo, complement).
\* a holds the call's arguments, b the running best (haveBest, bestDiff, bestTeam1).
Leaf(combo, a, b) ==
    LET team2 == ComplementLoop(0, 0, combo, a.teamSize, a.n)
        h1    == CountHealers(combo, a.selected)
        h2    == CountHealers(team2, a.selected)
        diff  == AbsDiff(SumMMR(combo, a.selected), SumMMR(team2, a.selected))
    IN  IF a.filterTalents /\ RoleReject(h1, h2, a.allDpsMatch)
        THEN b
        ELSE IF a.preventClassStacking > 0
                /\ (\/ HasClassStackingConflict(combo, a.selected, a.preventClassStacking, a.classStackMask)
                    \/ HasClassStackingConflict(team2, a.selected, a.preventClassStacking, a.classStackMask))
        THEN b
        ELSE IF Better(b.haveBest, diff, b.bestDiff)
        THEN [haveBest |-> TRUE, bestDiff |-> diff, bestTeam1 |-> combo]
        ELSE b

\* last value of the loop variable i at the given depth: n - (teamSize - depth)
LoopLast(n, ts, depth) == n - (ts - depth)

RECURSIVE Enumerate(_, _, _, _, _)
RECURSIVE EnumerateLoop(_, _, _, _, _)
Enumerate(start, depth, combo, a, b) ==
    IF depth = a.teamSize
    THEN Leaf(combo, a, b)
    ELSE EnumerateLoop(start, depth, combo, a, b)

\* the for loop of Enumerate from i on: set combo[depth], recurse, go on with
\* the best the recursive call left behind.  (Both branches of the inner test
\* are the same call: the test makes the recursive call complete before
\* the next iteration starts, as in the code.)
EnumerateLoop(i, depth, combo, a, b) ==
    IF i > LoopLast(a.n, a.teamSize, depth) THEN b
    ELSE LET combo2 == [combo EXCEPT ![depth + 1] = i]
             b2     == Enumerate(i + 1, depth + 1, combo2, a, b)
         IN  IF b2.haveBest
             THEN EnumerateLoop(i + 1, depth, combo2, a, b2)
             ELSE EnumerateLoop(i + 1, depth, combo2, a, b2)

\* faulty variant: the class filter runs at level 0 too, as at level 1
FindBestTeamSplit_FilterAtZero(sel, ts, ft, allDps, level, mask) ==
    LET n == Len(sel)
        a == [selected |-> sel, teamSize |-> ts, n |-> n, filterTalents |-> ft,
              allDpsMatch |-> allDps,
              preventClassStacking |-> IF level = 0 THEN 1 ELSE level,
              classStackMask |-> mask]
        b == IF n < ts * 2
             THEN [haveBest |-> FALSE, bestDiff |-> 0, bestTeam1 |-> <<>>]
             ELSE Enumerate(0, 0, [k \in 1..ts |-> 0], a,
                            [haveBest |-> FALSE, bestDiff |-> 0, bestTeam1 |-> <<>>])
    IN  IF ~b.haveBest
        THEN [valid |-> FALSE, team1Indices |-> <<>>, team2Indices |-> <<>>, mmrDiff |-> 0]
        ELSE [valid |-> TRUE,
              team1Indices |-> b.bestTeam1,
              team2Indices |-> ComplementLoop(0, 0, b.bestTeam1, Len(b.bestTeam1), n),
              mmrDiff |-> b.bestDiff]

FindBestTeamSplit(sel, ts, ft, allDps, level, mask) ==
    LET n == Len(sel)
        a == [selected |-> sel, teamSize |-> ts, n |-> n, filterTalents |-> ft,
              allDpsMatch |-> allDps, preventClassStacking |-> level, classStackMask |-> mask]
        b0 == [haveBest |-> FALSE, bestDiff |-> 0, bestTeam1 |-> <<>>]
        combo == [k \in 1..ts |-> 0]
    IN  IF n < ts * 2 THEN EmptyResult
        ELSE LET b == Enumerate(0, 0, combo, a, b0)
             IN  IF ~b.haveBest THEN EmptyResult
                 ELSE [valid |-> TRUE,
                       team1Indices |-> b.bestTeam1,
                       team2Indices |-> ComplementLoop(0, 0, b.bestTeam1, Len(b.bestTeam1), n),
                       mmrDiff |-> b.bestDiff]

(***************************************************************************)
(* Solo3v3::EnumerateCombinations: the search of CheckSolo3v3Arena, with   *)
(* the ignore-list tie-break.  Its complement loop, healer count, rating   *)
(* sums and composition test are those of the composer above.              *)
(***************************************************************************)
\* struct Candidate of Solo3v3: the player (by guid), role and rating
Candidate(player, role, mmr) == [id |-> player, role |-> role, mmr |-> mmr]

\* a->GetSocial()->HasIgnore(b->GetGUID())
HasIgnore(ign, a, b) == <<a, b>> \in ign

CountIgnorePairs(indices, sel, ign, avoid) ==
    IF ~avoid THEN 0
    ELSE Cardinality({p \in (1..Len(indices)) \X (1..Len(indices)) :
            /\ p[1] < p[2]
            /\ (\/ HasIgnore(ign, sel[indices[p[1]] + 1].id, sel[indices[p[2]] + 1].id)
                \/ HasIgnore(ign, sel[indices[p[2]] + 1].id, sel[indices[p[1]] + 1].id))})

\* faulty variant: fewer ignore pairs win over a smaller rating difference
BetterIgnores_IgnoresFirst(haveBest, diff, bestDiff, ign, bestIgnores) ==
    ~haveBest \/ ign < bestIgnores \/ (ign = bestIgnores /\ diff < bestDiff)

\* the replacement test of the running best, with the tie-break
BetterIgnores(haveBest, diff, bestDiff, ign, bestIgnores) ==
    ~haveBest \/ diff < bestDiff \/ (diff = bestDiff /\ ign < bestIgnores)

\* EnumerateCombinations at depth == teamSize
LeafIgnores(combo, a, b) ==
    LET team2 == ComplementLoop(0, 0, combo, a.teamSize, a.n)
        h1    == CountHealers(combo, a.selected)
        h2    == CountHealers(team2, a.selected)
        diff  == AbsDiff(SumMMR(combo, a.selected), SumMMR(team2, a.selected))
        ign   == CountIgnorePairs(combo, a.selected, a.ignores, a.avoidIgnore)
                 + CountIgnorePairs(team2, a.selected, a.ignores, a.avoidIgnore)
    IN  IF a.filterTalents /\ RoleReject(h1, h2, a.allDpsMatch)
        THEN b
        ELSE IF BetterIgnores(b.haveBest, diff, b.bestDiff, ign, b.bestIgnores)
        THEN [haveBest |-> TRUE, bestDiff |-> diff, bestIgnores |-> ign, bestTeam1 |-> combo]
        ELSE b

RECURSIVE EnumerateCombinations(_, _, _, _, _)
RECURSIVE EnumerateCombinationsLoop(_, _, _, _, _)
EnumerateCombinations(start, depth, combo, a, b) ==
    IF depth = a.teamSize
    THEN LeafIgnores(combo, a, b)
    ELSE EnumerateCombinationsLoop(start, depth, combo, a, b)

\* the for loop of EnumerateCombinations from i on (the inner test makes the
\* recursive call complete before the next iteration starts)
EnumerateCombinationsLoop(i, depth, combo, a, b) ==
    IF i > LoopLast(a.n, a.teamSize, depth) THEN b
    ELSE LET combo2 == [combo EXCEPT ![depth + 1] = i]
             b2     == EnumerateCombinations(i + 1, depth + 1, combo2, a, b)
         IN  IF b2.haveBest
             THEN EnumerateCombinationsLoop(i + 1, depth, combo2, a, b2)
             ELSE EnumerateCombinationsLoop(i + 1, depth, combo2, a, b2)

\* haveBest, bestDiff, bestIgnores and bestTeam1 before the search
NoBest == [haveBest |-> FALSE, bestDiff |-> 0, bestIgnores |-> 0, bestTeam1 |-> <<>>]

(***************************************************************************)
(* State machine.                                                          *)
(***************************************************************************)
InitEmpty ==
    /\ candidates = <<>>
    /\ selected = <<>>
    /\ teamSize = 3
    /\ filterTalents = FALSE
    /\ allDpsTimer = U32(0, 60000)
    /\ singleHealerDpsTimer = U32(0, 60000)
    /\ now = U32(0, 30000)
    /\ allDpsMatch = FALSE
    /\ selectReturn = FALSE
    /\ preventClassStacking = 0
    /\ classStackMask = 0
    /\ result = EmptyResult
    /\ pc = "idle"
    /\ ignores = {}
    /\ avoidIgnore = TRUE
    /\ best = NoBest
    /\ classIdArg = <<0, 0>>
    /\ maskBitRet = <<0, 0>>
    /\ queuedGroups = [b \in BucketIds |-> <<>>]
    /\ selectionPools = [tm \in TeamIds |-> <<>>]
    /\ allCandidates = <<>>
    /\ queuedAtEntry = [b \in BucketIds |-> <<>>]
    /\ tickReturn = FALSE
    /\ gameTime = 0

\* the composer on its own: a rated queue, no arena testing
Init == InitEmpty /\ isRated = TRUE /\ arenaTesting = FALSE

\* the battleground queue of a server, empty: rated or not, arena testing on or off
TickInit == InitEmpty /\ isRated \in BOOLEAN /\ arenaTesting \in BOOLEAN

\* index into JoinTimes of the newest queued candidate's join time (1 when empty)
LastJoinIdx(q) ==
    IF q = <<>> THEN 1
    ELSE CHOOSE k \in 1..Len(JoinTimes) : JoinTimes[k] = q[Len(q)].joinTime

\* A player joins the queue: appended behind the earlier arrivals, with a
\* join time not before theirs; ids are handed out in arrival order.
JoinQueue ==
    /\ pc = "idle"
    /\ Len(candidates) < MaxPool
    /\ \E role \in Roles, k \in 1..Len(JoinTimes) :
          /\ k >= LastJoinIdx(candidates)
          /\ candidates' = Append(candidates,
                 QueuedCandidate(Len(candidates) + 1, role, DEFAULT_MMR, JoinTimes[k], 0))
    /\ UNCHANGED <<ignoreVars, maskVars, tickVars>>
    /\ UNCHANGED <<selected, teamSize, filterTalents, allDpsTimer, singleHealerDpsTimer,
                   now, allDpsMatch, selectReturn, preventClassStacking, classStackMask,
                   result, pc>>

\* One call of SelectCandidates on the queue.
CallSelectCandidates ==
    /\ pc = "idle"
    /\ \E ts \in TeamSizes, ft \in BOOLEAN, t1 \in Timers, t2 \in Timers, t \in Nows :
          LET r == SelectCandidates(candidates, ts, ft, t1, t2, t)
          IN  /\ teamSize' = ts
              /\ filterTalents' = ft
              /\ allDpsTimer' = t1
              /\ singleHealerDpsTimer' = t2
              /\ now' = t
              /\ selected' = r.selected
              /\ allDpsMatch' = r.allDpsMatch
              /\ selectReturn' = r.ok
    /\ pc' = "select"
    /\ UNCHANGED <<ignoreVars, maskVars, tickVars>>
    /\ UNCHANGED <<candidates, preventClassStacking, classStackMask, result>>

SelectNext == JoinQueue \/ CallSelectCandidates

SelectSpec == Init /\ [][SelectNext]_vars

(***************************************************************************)
(* FindBestTeamSplit called directly on a list of candidates, as the unit  *)
(* tests do.                                                               *)
(***************************************************************************)
\* the candidates a list handed to FindBestTeamSplit is built from: <<role, mmr, classId>>
SplitKinds ==
    { <<"HEALER", 2500, 1>>, <<"HEALER", 1000, 2>>, <<"DPS", 1500, 1>>, <<"DPS", 1000, 2>> }

\* preventClassStacking settings: off, all roles, any DPS, healer + DPS
StackLevels == {0, 1, 4, 6}

\* classStackMask settings: 0 (all classes), class 1 only
StackMasks == {0, 1}

\* A candidate is appended to the list handed to FindBestTeamSplit.
AddSelected ==
    /\ pc = "idle"
    /\ Len(selected) < MaxSelected
    /\ \E k \in SplitKinds :
          selected' = Append(selected,
              QueuedCandidate(Len(selected) + 1, k[1], k[2], U32(0, 0), k[3]))
    /\ UNCHANGED <<ignoreVars, maskVars, tickVars>>
    /\ UNCHANGED <<candidates, teamSize, filterTalents, allDpsTimer, singleHealerDpsTimer,
                   now, allDpsMatch, selectReturn, preventClassStacking, classStackMask,
                   result, pc>>

\* One call of FindBestTeamSplit on the list.
CallFindBestTeamSplit ==
    /\ pc = "idle"
    /\ \E ts \in TeamSizes, ft \in BOOLEAN, allDps \in BOOLEAN,
          level \in StackLevels, mask \in StackMasks :
          /\ teamSize' = ts
          /\ filterTalents' = ft
          /\ allDpsMatch' = allDps
          /\ preventClassStacking' = level
          /\ classStackMask' = mask
          /\ result' = FindBestTeamSplit(selected, ts, ft, allDps, level, mask)
    /\ pc' = "split"
    /\ UNCHANGED <<ignoreVars, maskVars, tickVars>>
    /\ UNCHANGED <<candidates, selected, allDpsTimer, singleHealerDpsTimer, now, selectReturn>>

SplitNext == AddSelected \/ CallFindBestTeamSplit

SplitSpec == Init /\ [][SplitNext]_vars

(***************************************************************************)
(* FindBestTeamSplit on candidates of equal rating that differ in role and *)
(* class, under every stacking level, as the class-stacking tests do.      *)
(***************************************************************************)
\* longest list of this kind
MaxClassed == 4

\* class ids: none, Warrior, Druid
ClassIds == {0, 1, 11}

\* preventClassStacking: off and the six levels
ClassLevels == 0..6

\* classStackMask: all classes, Warrior, Druid, Warrior and Druid
ClassMasks == {0, 1, 1024, 1025}

ClassTeamSizes == {1, 2}

AddClassed ==
    /\ pc = "idle"
    /\ Len(selected) < MaxClassed
    /\ \E role \in Roles, cls \in ClassIds :
          selected' = Append(selected,
              QueuedCandidate(Len(selected) + 1, role, DEFAULT_MMR, U32(0, 0), cls))
    /\ UNCHANGED <<ignoreVars, maskVars, tickVars>>
    /\ UNCHANGED <<candidates, teamSize, filterTalents, allDpsTimer, singleHealerDpsTimer,
                   now, allDpsMatch, selectReturn, preventClassStacking, classStackMask,
                   result, pc>>

CallSplitClassed ==
    /\ pc = "idle"
    /\ \E ts \in ClassTeamSizes, ft \in BOOLEAN, allDps \in BOOLEAN,
          level \in ClassLevels, mask \in ClassMasks :
          /\ teamSize' = ts
          /\ filterTalents' = ft
          /\ allDpsMatch' = allDps
          /\ preventClassStacking' = level
          /\ classStackMask' = mask
          /\ result' = FindBestTeamSplit(selected, ts, ft, allDps, level, mask)
    /\ pc' = "split"
    /\ UNCHANGED <<ignoreVars, maskVars, tickVars>>
    /\ UNCHANGED <<candidates, selected, allDpsTimer, singleHealerDpsTimer, now, selectReturn>>

ClassNext == AddClassed \/ CallSplitClassed

ClassSpec == Init /\ [][ClassNext]_vars

(***************************************************************************)
(* Phase 3 of Solo3v3::CheckSolo3v3Arena: EnumerateCombinations on the     *)
(* 2 * MinPlayers selected candidates, with ignore lists.                  *)
(***************************************************************************)
\* MinPlayers: 1 (arena testing) or 3
MinPlayersValues == {1, 3}

\* the selected candidates: <<role, mmr>>
SoloKinds == { <<"HEALER", 1500>>, <<"MELEE", 1500>>, <<"MELEE", 1000>> }

\* the ignore-list entries that may exist: <<a, b>>, a ignores b
IgnoreEntries == { <<1, 2>>, <<2, 1>>, <<1, 4>>, <<3, 5>>, <<6, 4>> }

\* A candidate is selected for the match.
SelectForMatch ==
    /\ pc = "idle"
    /\ \E m \in MinPlayersValues : Len(selected) < 2 * m
    /\ \E k \in SoloKinds :
          selected' = Append(selected, Candidate(Len(selected) + 1, k[1], k[2]))
    /\ UNCHANGED <<candidates, teamSize, filterTalents, allDpsTimer, singleHealerDpsTimer,
                   now, allDpsMatch, selectReturn, preventClassStacking, classStackMask,
                   result, pc>>
    /\ UNCHANGED <<ignoreVars, maskVars, tickVars>>

\* A selected player puts another one on the ignore list.
AddIgnore ==
    /\ pc = "idle"
    /\ \E e \in IgnoreEntries \ ignores :
          /\ e[1] <= Len(selected) /\ e[2] <= Len(selected)
          /\ ignores' = ignores \cup {e}
    /\ UNCHANGED <<candidates, selected, teamSize, filterTalents, allDpsTimer,
                   singleHealerDpsTimer, now, allDpsMatch, selectReturn,
                   preventClassStacking, classStackMask, result, pc, avoidIgnore, best>>
    /\ UNCHANGED <<maskVars, tickVars>>

\* The search of phase 3; allDpsMatch is set only under filterTalents.
CallEnumerateCombinations ==
    /\ pc = "idle"
    /\ \E ts \in MinPlayersValues, ft \in BOOLEAN, allDps \in BOOLEAN, avoid \in BOOLEAN :
          /\ Len(selected) = 2 * ts
          /\ allDps => ft
          /\ teamSize' = ts
          /\ filterTalents' = ft
          /\ allDpsMatch' = allDps
          /\ avoidIgnore' = avoid
          /\ best' = EnumerateCombinations(0, 0, [k \in 1..ts |-> 0],
                         [selected |-> selected, teamSize |-> ts, n |-> Len(selected),
                          filterTalents |-> ft, allDpsMatch |-> allDps,
                          ignores |-> ignores, avoidIgnore |-> avoid],
                         NoBest)
    /\ pc' = "enumerate"
    /\ UNCHANGED <<candidates, selected, allDpsTimer, singleHealerDpsTimer, now, selectReturn,
                   preventClassStacking, classStackMask, result, ignores>>
    /\ UNCHANGED <<maskVars, tickVars>>

IgnoreNext == SelectForMatch \/ AddIgnore \/ CallEnumerateCombinations

IgnoreSpec == Init /\ [][IgnoreNext]_vars

(***************************************************************************)
(* The two phases in one call: SelectCandidates, then FindBestTeamSplit on *)
(* what it selected, without the class filter.                             *)
(***************************************************************************)
RunFullPipeline ==
    /\ pc = "idle"
    /\ \E ts \in TeamSizes, ft \in BOOLEAN, t1 \in Timers, t2 \in Timers, t \in Nows :
          LET r == SelectCandidates(candidates, ts, ft, t1, t2, t)
          IN  /\ teamSize' = ts
              /\ filterTalents' = ft
              /\ allDpsTimer' = t1
              /\ singleHealerDpsTimer' = t2
              /\ now' = t
              /\ selected' = r.selected
              /\ allDpsMatch' = r.allDpsMatch
              /\ selectReturn' = r.ok
              /\ result' = IF ~r.ok THEN EmptyResult
                           ELSE FindBestTeamSplit(r.selected, ts, ft, r.allDpsMatch, 0, 0)
    /\ preventClassStacking' = 0
    /\ classStackMask' = 0
    /\ pc' = "pipeline"
    /\ UNCHANGED <<ignoreVars, maskVars, tickVars>>
    /\ UNCHANGED candidates

PipelineNext == JoinQueue \/ RunFullPipeline

PipelineSpec == Init /\ [][PipelineNext]_vars

(***************************************************************************)
(* Solo3v3::CheckSolo3v3Arena on the battleground queue: one matchmaking   *)
(* tick, with the arrivals and the invitations that happen between ticks.  *)
(***************************************************************************)
\* most groups that ever join the queue
MaxGroups == 6

\* most groups that ever join the queue of a server in arena testing mode
MaxTestingGroups == 4

\* talent category, rating and faction of the one player of a joining group
GroupKinds == { <<"HEALER", 1500, TEAM_ALLIANCE>>, <<"MELEE", 1000, TEAM_HORDE>>,
                <<"RANGE", 1500, TEAM_ALLIANCE>> }

\* time that passes before an arrival (ms)
TimeSteps == {0, 1000}

\* latest game time (ms)
MaxGameTime == 1000

\* Solo.3v3.FilterTalents.AllDPSTimer (seconds)
AllDpsTimerOptions == {0, 1}

\* a small uint32 value as a pair of halves
ToU32(v) == U32(v \div Half, v % Half)

\* GroupQueueInfo of a solo group, with the talent category and rating of its player
GroupQueueInfo(id, teamId, groupType, joinTime, role, mmr) ==
    [id |-> id, teamId |-> teamId, GroupType |-> groupType, JoinTime |-> joinTime,
     role |-> role, mmr |-> mmr, IsInvitedToBGInstanceGUID |-> FALSE]

AllianceGroupType(rated) ==
    IF rated THEN BG_QUEUE_PREMADE_ALLIANCE ELSE BG_QUEUE_NORMAL_ALLIANCE

HordeGroupType(rated) ==
    IF rated THEN BG_QUEUE_PREMADE_HORDE ELSE BG_QUEUE_NORMAL_HORDE

MinPlayersOf(testing) == IF testing THEN 1 ELSE 3

\* all groups of the queue, bucket after bucket
QueuedSeq(q) ==
    q[BG_QUEUE_PREMADE_ALLIANCE] \o q[BG_QUEUE_PREMADE_HORDE]
        \o q[BG_QUEUE_NORMAL_ALLIANCE] \o q[BG_QUEUE_NORMAL_HORDE]

\* c.group: the queued group with this id
GroupById(q, id) ==
    LET all == QueuedSeq(q)
    IN  all[CHOOSE k \in 1..Len(all) : all[k].id = id]

\* phase 1 for one bucket: the groups not yet invited, in bucket order
RECURSIVE CollectBucket(_, _, _)
CollectBucket(list, k, ft) ==
    IF k > Len(list) THEN <<>>
    ELSE LET g == list[k]
         IN  IF g.IsInvitedToBGInstanceGUID THEN CollectBucket(list, k + 1, ft)
             ELSE <<[group |-> g.id, id |-> g.id,
                     role |-> IF ft THEN g.role ELSE "MELEE",
                     mmr |-> g.mmr]>> \o CollectBucket(list, k + 1, ft)

\* phase 1: t = 0, then t = 1
CollectCandidates(q, rated, ft) ==
    CollectBucket(q[0 + (IF rated THEN 0 ELSE PVP_TEAMS_COUNT)], 1, ft)
        \o CollectBucket(q[1 + (IF rated THEN 0 ELSE PVP_TEAMS_COUNT)], 1, ft)

\* phase 2, entered with at least 2 * MinPlayers candidates
SelectPhase(all, q, mp, ft, timerMs, t) ==
    LET healers  == SelectSeq(all, IsHealer)
        dps      == SelectSeq(all, IsDps)
        timedDps == SelectSeq(dps, LAMBDA c :
                        Le32(Add32(ToU32(GroupById(q, c.group).JoinTime), ToU32(timerMs)),
                             ToU32(t)))
    IN  IF ~ft THEN [selected |-> Take(all, mp * 2), allDpsMatch |-> FALSE]
        ELSE IF Len(healers) >= HealersNeeded(mp) /\ Len(dps) >= DpsNeeded(mp)
        THEN [selected |-> Take(healers, HealersNeeded(mp)) \o Take(dps, DpsNeeded(mp)),
              allDpsMatch |-> FALSE]
        ELSE IF Len(healers) = 0 /\ Len(timedDps) >= mp * 2
        THEN [selected |-> Take(timedDps, mp * 2), allDpsMatch |-> TRUE]
        ELSE [selected |-> <<>>, allDpsMatch |-> FALSE]

\* the while loop of AssignToPool: the first position of dstList whose
\* JoinTime is greater than joinTime, Len + 1 for dstList.end()
RECURSIVE InsertPos(_, _, _)
InsertPos(dstList, k, joinTime) ==
    IF k <= Len(dstList) /\ dstList[k].JoinTime <= joinTime
    THEN InsertPos(dstList, k + 1, joinTime)
    ELSE k

\* faulty variant: the moved group is put at the end of the destination bucket
Reinsert_AtEnd(dstList, g) == Append(dstList, g)

\* dstList.insert(insertPos, c.group)
Reinsert(dstList, g) ==
    LET pos == InsertPos(dstList, 1, g.JoinTime)
    IN  SubSeq(dstList, 1, pos - 1) \o <<g>> \o SubSeq(dstList, pos, Len(dstList))

\* srcList.erase(std::find(srcList.begin(), srcList.end(), c.group)); the
\* group is in srcList, the bucket of its teamId
Erase(srcList, id) == SelectSeq(srcList, LAMBDA g : g.id # id)

\* SelectionPool::AddGroup for a group of one player
AddGroup(pool, g, size) ==
    IF ~g.IsInvitedToBGInstanceGUID /\ Len(pool) + 1 <= size THEN Append(pool, g.id) ELSE pool

\* the body of the loop of AssignToPool for selected[idx]
AssignOne(idx, sel, poolTeam, st, aType, hType, mp) ==
    LET c        == sel[idx + 1]
        g        == GroupById(st.q, c.group)
        dstType  == IF poolTeam = TEAM_ALLIANCE THEN aType ELSE hType
        srcType  == IF g.teamId = TEAM_ALLIANCE THEN aType ELSE hType
        moved    == [g EXCEPT !.teamId = poolTeam, !.GroupType = dstType]
        q2       == IF g.teamId # poolTeam
                    THEN [st.q EXCEPT ![dstType] = Reinsert(st.q[dstType], moved),
                                      ![srcType] = Erase(st.q[srcType], g.id)]
                    ELSE st.q
    IN  [q |-> q2,
         pools |-> [st.pools EXCEPT ![poolTeam] = AddGroup(st.pools[poolTeam], moved, mp)]]

RECURSIVE AssignToPool(_, _, _, _, _, _, _, _)
AssignToPool(indices, k, sel, poolTeam, st, aType, hType, mp) ==
    IF k > Len(indices) THEN st
    ELSE LET st2 == AssignOne(indices[k], sel, poolTeam, st, aType, hType, mp)
         IN  IF st2.q = st.q
             THEN AssignToPool(indices, k + 1, sel, poolTeam, st2, aType, hType, mp)
             ELSE AssignToPool(indices, k + 1, sel, poolTeam, st2, aType, hType, mp)

\* faulty variant: a tick that forms no match drops the queue it looked at
ReturnFalse_QueueDropped(q, all, sel, allDps) ==
    [ret |-> FALSE, q |-> [b \in BucketIds |-> <<>>], pools |-> [tm \in TeamIds |-> <<>>],
     all |-> all, selected |-> sel, allDpsMatch |-> allDps, best |-> NoBest]

\* return false: the selection pools were emptied on entry, the queue is as it was
ReturnFalse(q, all, sel, allDps) ==
    [ret |-> FALSE, q |-> q, pools |-> [tm \in TeamIds |-> <<>>],
     all |-> all, selected |-> sel, allDpsMatch |-> allDps, best |-> NoBest]

\* CheckSolo3v3Arena from entry to return
CheckSolo3v3ArenaResult(q, rated, testing, ft, avoid, timerMs, t, ign) ==
    LET mp    == MinPlayersOf(testing)
        empty == [tm \in TeamIds |-> <<>>]
        all   == CollectCandidates(q, rated, ft)
    IN  IF Len(all) < mp * 2 THEN ReturnFalse(q, all, <<>>, FALSE)
        ELSE LET s == SelectPhase(all, q, mp, ft, timerMs, t)
             IN  IF Len(s.selected) < mp * 2
                 THEN ReturnFalse(q, all, <<>>, s.allDpsMatch)
                 ELSE LET n  == Len(s.selected)
                          b  == EnumerateCombinations(0, 0, [k \in 1..mp |-> 0],
                                    [selected |-> s.selected, teamSize |-> mp, n |-> n,
                                     filterTalents |-> ft, allDpsMatch |-> s.allDpsMatch,
                                     ignores |-> ign, avoidIgnore |-> avoid],
                                    NoBest)
                      IN  IF ~b.haveBest
                          THEN ReturnFalse(q, all, s.selected, s.allDpsMatch)
                          ELSE LET team2 == ComplementLoop(0, 0, b.bestTeam1,
                                                           Len(b.bestTeam1), n)
                                   st1 == AssignToPool(b.bestTeam1, 1, s.selected,
                                              TEAM_ALLIANCE, [q |-> q, pools |-> empty],
                                              AllianceGroupType(rated),
                                              HordeGroupType(rated), mp)
                                   st2 == AssignToPool(team2, 1, s.selected, TEAM_HORDE,
                                              st1, AllianceGroupType(rated),
                                              HordeGroupType(rated), mp)
                               IN  [ret |-> TRUE, q |-> st2.q, pools |-> st2.pools,
                                    all |-> all, selected |-> s.selected,
                                    allDpsMatch |-> s.allDpsMatch, best |-> b]

NumQueued == Len(QueuedSeq(queuedGroups))

\* A solo player joins the queue: the group is appended to the bucket of
\* its faction with the current game time as JoinTime.
\* the locals and the options read by the last tick are gone once it has returned
TickLocalsGone ==
    /\ allCandidates' = <<>>
    /\ selected' = <<>>
    /\ allDpsMatch' = FALSE
    /\ best' = NoBest
    /\ queuedAtEntry' = [b \in BucketIds |-> <<>>]
    /\ tickReturn' = FALSE
    /\ teamSize' = 3
    /\ filterTalents' = FALSE
    /\ avoidIgnore' = TRUE
    /\ allDpsTimer' = U32(0, 60000)
    /\ now' = U32(0, 30000)

JoinSolo ==
    /\ pc \in {"idle", "tick"}
    /\ pc = "tick" => ~tickReturn
    /\ NumQueued < (IF arenaTesting THEN MaxTestingGroups ELSE MaxGroups)
    /\ \E kind \in GroupKinds, dt \in TimeSteps :
          LET tm == kind[3]
              gt == IF tm = TEAM_ALLIANCE THEN AllianceGroupType(isRated)
                    ELSE HordeGroupType(isRated)
          IN  /\ gameTime + dt <= MaxGameTime
              /\ gameTime' = gameTime + dt
              /\ queuedGroups' = [queuedGroups EXCEPT ![gt] =
                     Append(@, GroupQueueInfo(NumQueued + 1, tm, gt, gameTime + dt,
                                              kind[1], kind[2]))]
    /\ pc' = "idle"
    /\ TickLocalsGone
    /\ UNCHANGED <<selectionPools, isRated, arenaTesting, ignores>>
    /\ UNCHANGED maskVars
    /\ UNCHANGED <<candidates, singleHealerDpsTimer, selectReturn,
                   preventClassStacking, classStackMask, result>>

\* One matchmaking tick at the current game time; Solo.3v3.AvoidSameTeamIgnore
\* has its default, true.
CheckSolo3v3Arena ==
    /\ pc \in {"idle", "tick"}
    /\ pc = "tick" => ~tickReturn
    /\ \E ft \in BOOLEAN, opt \in AllDpsTimerOptions :
          \E r \in {CheckSolo3v3ArenaResult(queuedGroups, isRated, arenaTesting, ft, TRUE,
                                             opt * 1000, gameTime, ignores)} :
              /\ now' = ToU32(gameTime)
              /\ allDpsTimer' = ToU32(opt * 1000)
              /\ filterTalents' = ft
              /\ avoidIgnore' = TRUE
              /\ teamSize' = MinPlayersOf(arenaTesting)
              /\ queuedAtEntry' = queuedGroups
              /\ allCandidates' = r.all
              /\ selected' = r.selected
              /\ allDpsMatch' = r.allDpsMatch
              /\ best' = r.best
              /\ queuedGroups' = r.q
              /\ selectionPools' = r.pools
              /\ tickReturn' = r.ret
    /\ pc' = "tick"
    /\ UNCHANGED <<candidates, singleHealerDpsTimer, selectReturn, preventClassStacking,
                   classStackMask, result, ignores, isRated, arenaTesting, gameTime>>
    /\ UNCHANGED maskVars

\* After a tick that formed a match the queue invites the groups of the
\* two selection pools.
InviteSelected ==
    /\ pc = "tick" /\ tickReturn
    /\ LET pooled == {selectionPools[tm][k] : tm \in TeamIds, k \in 1..MinPlayersOf(arenaTesting)}
       IN  queuedGroups' = [b \in BucketIds |->
               [k \in 1..Len(queuedGroups[b]) |->
                   IF queuedGroups[b][k].id \in pooled
                   THEN [queuedGroups[b][k] EXCEPT !.IsInvitedToBGInstanceGUID = TRUE]
                   ELSE queuedGroups[b][k]]]
    /\ pc' = "idle"
    /\ TickLocalsGone
    /\ UNCHANGED <<selectionPools, gameTime, isRated, arenaTesting, ignores>>
    /\ UNCHANGED maskVars
    /\ UNCHANGED <<candidates, singleHealerDpsTimer, selectReturn,
                   preventClassStacking, classStackMask, result>>

TickNext == JoinSolo \/ CheckSolo3v3Arena \/ InviteSelected

TickSpec == TickInit /\ [][TickNext]_vars

(***************************************************************************)
(* Retry by re-invocation: the caller calls role-enforced SelectCandidates *)
(* on the same queue tick after tick, with the same team size and timers   *)
(* and a clock that does not go back.                                      *)
(***************************************************************************)
FirstTick ==
    /\ pc = "idle"
    /\ \E ts \in TeamSizes, t1 \in Timers, t2 \in Timers, t \in Nows :
          \E r \in {SelectCandidates(candidates, ts, TRUE, t1, t2, t)} :
              /\ teamSize' = ts
              /\ allDpsTimer' = t1
              /\ singleHealerDpsTimer' = t2
              /\ now' = t
              /\ selected' = r.selected
              /\ allDpsMatch' = r.allDpsMatch
              /\ selectReturn' = r.ok
    /\ filterTalents' = TRUE
    /\ pc' = "retry"
    /\ UNCHANGED <<ignoreVars, maskVars, tickVars>>
    /\ UNCHANGED <<candidates, preventClassStacking, classStackMask, result>>

NextTick ==
    /\ pc = "retry"
    /\ \E t \in Nows :
          /\ Le32(now, t)
          /\ \E r \in {SelectCandidates(candidates, teamSize, filterTalents, allDpsTimer,
                                         singleHealerDpsTimer, t)} :
                /\ now' = t
                /\ selected' = r.selected
                /\ allDpsMatch' = r.allDpsMatch
                /\ selectReturn' = r.ok
    /\ UNCHANGED <<ignoreVars, maskVars, tickVars>>
    /\ UNCHANGED <<candidates, teamSize, filterTalents, allDpsTimer, singleHealerDpsTimer,
                   preventClassStacking, classStackMask, result, pc>>

RetryNext == JoinQueue \/ FirstTick \/ NextTick

RetrySpec == Init /\ [][RetryNext]_vars

(***************************************************************************)
(* ClassIdToMaskBit on its own: two calls with any uint8_t arguments.      *)
(***************************************************************************)
\* uint8_t
ClassIdValues == 0..255

CallClassIdToMaskBit ==
    /\ pc = "idle"
    /\ \E a \in ClassIdValues, b \in ClassIdValues :
          /\ classIdArg' = <<a, b>>
          /\ maskBitRet' = <<ClassIdToMaskBit(a), ClassIdToMaskBit(b)>>
    /\ pc' = "maskbit"
    /\ UNCHANGED <<candidates, selected, teamSize, filterTalents, allDpsTimer,
                   singleHealerDpsTimer, now, allDpsMatch, selectReturn,
                   preventClassStacking, classStackMask, result>>
    /\ UNCHANGED <<ignoreVars, tickVars>>

MaskNext == CallClassIdToMaskBit

MaskSpec == Init /\ [][MaskNext]_vars

(***************************************************************************)
(* Properties of FindBestTeamSplit, stated over sets of indices.           *)
(***************************************************************************)
Indices(n) == 0..(n - 1)

SeqToSet(s) == {s[k] : k \in 1..Len(s)}

\* all ways to pick the first team: the size-ts subsets of [0, n)
Team1Choices(n, ts) == {S \in SUBSET Indices(n) : Cardinality(S) = ts}

HealersIn(S, sel) == Cardinality({i \in S : sel[i + 1].role = "HEALER"})

\* sum of the ratings of the members of S among the first k candidates
RECURSIVE RatingSumUpTo(_, _, _)
RatingSumUpTo(S, sel, k) ==
    IF k = 0 THEN 0
    ELSE (IF (k - 1) \in S THEN sel[k].mmr ELSE 0) + RatingSumUpTo(S, sel, k - 1)

RatingSum(S, sel) == RatingSumUpTo(S, sel, Len(sel))

RatingDiff(S1, S2, sel) == AbsDiff(RatingSum(S1, sel), RatingSum(S2, sel))

\* the healer quota of the role filter for one team
QuotaMet(S, sel, allDps) == HealersIn(S, sel) = (IF allDps THEN 0 ELSE 1)

PassesRoleFilter(S1, S2, sel, ft, allDps) ==
    ft => (QuotaMet(S1, sel, allDps) /\ QuotaMet(S2, sel, allDps))

TeamHasConflict(S, sel, level, mask) ==
    \E i \in S, j \in S : i < j /\ PairConflict(sel[i + 1], sel[j + 1], level, mask)

PassesClassFilter(S1, S2, sel, level, mask) ==
    level > 0 => (~TeamHasConflict(S1, sel, level, mask) /\ ~TeamHasConflict(S2, sel, level, mask))

PassesFilters(S1, S2, sel, ft, allDps, level, mask) ==
    /\ PassesRoleFilter(S1, S2, sel, ft, allDps)
    /\ PassesClassFilter(S1, S2, sel, level, mask)

\* the partitions of the current call that pass its filters, as first teams
PassingChoices ==
    {S \in Team1Choices(Len(selected), teamSize) :
        PassesFilters(S, Indices(Len(selected)) \ S, selected, filterTalents, allDpsMatch,
                      preventClassStacking, classStackMask)}

SplitDone == pc = "split"

ValidSplit == SplitDone /\ result.valid

Team1 == SeqToSet(result.team1Indices)

Team2 == SeqToSet(result.team2Indices)

C2_HealerQuota ==
    (SplitDone /\ filterTalents) =>
        /\ result.valid =>
              /\ HealersIn(Team1, selected) = (IF allDpsMatch THEN 0 ELSE 1)
              /\ HealersIn(Team2, selected) = (IF allDpsMatch THEN 0 ELSE 1)
        /\ (\A S \in Team1Choices(Len(selected), teamSize) :
                ~(QuotaMet(S, selected, allDpsMatch)
                  /\ QuotaMet(Indices(Len(selected)) \ S, selected, allDpsMatch)))
              => ~result.valid

\* C2 witnesses: a valid role-enforced 3v3 split with one healer per team,
\* and a list with both healers forced together that is rejected.
C2_Witness ==
    /\ ValidSplit /\ filterTalents /\ ~allDpsMatch
    /\ teamSize = 3 /\ Len(selected) = 6
    /\ HealersIn(Indices(6), selected) = 2

C2_WitnessInvalid ==
    /\ SplitDone /\ filterTalents /\ allDpsMatch /\ ~result.valid
    /\ teamSize = 3 /\ Len(selected) = 6
    /\ HealersIn(Indices(6), selected) = 1
    /\ preventClassStacking = 0

\* C3: the two index lists of a valid split are disjoint, repeat no index,
\* and together are exactly the indices 0 .. n-1.
C3_Partition ==
    ValidSplit =>
        /\ Team1 \cap Team2 = {}
        /\ Cardinality(Team1) = Len(result.team1Indices)
        /\ Cardinality(Team2) = Len(result.team2Indices)
        /\ Team1 \cup Team2 = Indices(Len(selected))

C3_Witness ==
    /\ ValidSplit
    /\ teamSize = 3 /\ Len(selected) = 6
    /\ result.team1Indices # <<0, 1, 2>>

\* C4 as stated: with len(selected) >= 2*teamSize, both index lists of a valid
\* split have exactly teamSize entries.
C4_BothTeamSize ==
    (ValidSplit /\ Len(selected) >= 2 * teamSize) =>
        /\ Len(result.team1Indices) = teamSize
        /\ Len(result.team2Indices) = teamSize

\* C4 amended: team1Indices has exactly teamSize entries and team2Indices
\* the remaining len(selected) - teamSize, which is teamSize exactly when
\* len(selected) = 2*teamSize.
C4_TeamSizes ==
    ValidSplit =>
        /\ Len(selected) >= 2 * teamSize
        /\ Len(result.team1Indices) = teamSize
        /\ Len(result.team2Indices) = Len(selected) - teamSize

C4_Witness ==
    /\ ValidSplit
    /\ teamSize = 2 /\ Len(selected) = 5
    /\ Len(result.team2Indices) = 3

(***************************************************************************)
(* Properties of SelectCandidates.                                         *)
(***************************************************************************)
SelectDone == pc = "select"

SelectOk == SelectDone /\ selectReturn

NumHealers(q) == Cardinality({i \in 1..Len(q) : q[i].role = "HEALER"})

NumDps(q) == Cardinality({i \in 1..Len(q) : q[i].role = "DPS"})

\* candidate c of the queue is in the selection
InSelected(c) == \E j \in 1..Len(selected) : selected[j].id = c.id

\* c has waited at least timer: joinTime + timer <= now, in exact arithmetic
Waited(c, timer) == ~ExactSumGt(c.joinTime, timer, now)

\* queue positions of the DPS that have waited at least timer
WaitedDps(timer) ==
    {i \in 1..Len(candidates) : candidates[i].role = "DPS" /\ Waited(candidates[i], timer)}

\* queue positions of the DPS that pass the 32-bit test of the code
ElapsedDps(timer) ==
    {i \in 1..Len(candidates) :
        candidates[i].role = "DPS" /\ TimerElapsed(candidates[i], timer, now)}

\* the timer of the fallback branch the queue's healer count leads to
FallbackTimer == IF NumHealers(candidates) = 0 THEN allDpsTimer ELSE singleHealerDpsTimer

\* C5: for teamSize > 1 with filterTalents, a selection made by the standard
\* path (allDpsMatch false) has exactly 2 * teamSize candidates, drawn from
\* the queue without repetition: exactly 2 healers and 2 * teamSize - 2 DPS.
C5_StandardPath ==
    (SelectOk /\ filterTalents /\ teamSize > 1 /\ ~allDpsMatch) =>
        /\ Len(selected) = 2 * teamSize
        /\ NumHealers(selected) = 2
        /\ NumDps(selected) = 2 * teamSize - 2
        /\ Cardinality({i \in 1..Len(candidates) : InSelected(candidates[i])}) = 2 * teamSize

\* C5 witness: a 3v3 standard-path selection from a queue holding more
\* healers and more DPS than a match needs.
C5_Witness ==
    /\ SelectOk /\ filterTalents /\ teamSize = 3 /\ ~allDpsMatch
    /\ NumHealers(candidates) = 3
    /\ NumDps(candidates) = 4
    /\ NumHealers(selected) = 2

\* C6: in a successful role-enforced selection, a candidate that is eligible
\* (on a fallback path: a DPS that has waited the branch's timer) and stands
\* before a selected candidate of its role is selected too.
C6_Fifo ==
    (SelectOk /\ filterTalents) =>
        \A a \in 1..Len(candidates), b \in 1..Len(candidates) :
            ( /\ a < b
              /\ candidates[a].role = candidates[b].role
              /\ InSelected(candidates[b])
              /\ (allDpsMatch => Waited(candidates[a], FallbackTimer)) )
            => InSelected(candidates[a])

\* C6 witness: a selection that leaves a candidate in the queue while taking
\* an earlier one of the same role, on the standard path.
C6_Witness ==
    /\ SelectOk /\ filterTalents /\ ~allDpsMatch /\ teamSize > 1
    /\ \E a \in 1..Len(candidates), b \in 1..Len(candidates) :
          /\ a < b
          /\ candidates[a].role = candidates[b].role
          /\ InSelected(candidates[a])
          /\ ~InSelected(candidates[b])

\* the same on a fallback path: a waiting DPS is taken, a later one is left
C6_WitnessFallback ==
    /\ SelectOk /\ filterTalents /\ allDpsMatch
    /\ \E a \in 1..Len(candidates), b \in 1..Len(candidates) :
          /\ a < b
          /\ candidates[a].role = "DPS" /\ candidates[b].role = "DPS"
          /\ InSelected(candidates[a])
          /\ ~InSelected(candidates[b])

\* a selection made by the zero-healer fallback
ZeroHealerFallback ==
    SelectOk /\ filterTalents /\ allDpsMatch /\ NumHealers(candidates) = 0

\* C7: a selection made by the zero-healer fallback holds no DPS whose exact
\* sum joinTime + allDpsTimer is greater than now, for all 32-bit values.
C7_NoEarlyDps ==
    ZeroHealerFallback =>
        \A j \in 1..Len(selected) : ~ExactSumGt(selected[j].joinTime, allDpsTimer, now)

\* C7, what the code guarantees: every DPS of such a selection passes the
\* test on the sum reduced modulo 2^32.
C7_WrappedGate ==
    ZeroHealerFallback =>
        \A j \in 1..Len(selected) : TimerElapsed(selected[j], allDpsTimer, now)

\* C7 witness: the zero-healer fallback selects a DPS that has not waited
\* allDpsTimer, its sum having wrapped past 2^32.
C7_Witness ==
    /\ ZeroHealerFallback
    /\ \E j \in 1..Len(selected) :
          /\ ExactSumGt(selected[j].joinTime, allDpsTimer, now)
          /\ TimerElapsed(selected[j], allDpsTimer, now)

\* the compositions that are to succeed, "waited" being one of the two
\* readings WaitedDps (exact) and ElapsedDps (32-bit)
Matchable(waitedDps(_)) ==
    LET h == NumHealers(candidates)
        d == NumDps(candidates)
    IN  \/ h >= 2 /\ d >= 2 * teamSize - 2
        \/ h = 0 /\ Cardinality(waitedDps(allDpsTimer)) >= 2 * teamSize
        \/ h = 1 /\ Cardinality(waitedDps(singleHealerDpsTimer)) >= 2 * teamSize

\* C8: with filterTalents and teamSize > 1, on a queue of at least
\* 2 * teamSize candidates the selection succeeds exactly when there are 2
\* healers and 2 * teamSize - 2 DPS, or no healer and 2 * teamSize DPS that
\* have waited allDpsTimer, or one healer and 2 * teamSize DPS that have
\* waited singleHealerDpsTimer.
C8_SelectIff ==
    (SelectDone /\ filterTalents /\ teamSize > 1 /\ Len(candidates) >= 2 * teamSize) =>
        (selectReturn <=> Matchable(WaitedDps))

\* C8, what the code guarantees: the same equivalence with "waited" decided
\* by the test on the sum reduced modulo 2^32.
C8_SelectIffWrapped ==
    (SelectDone /\ filterTalents /\ teamSize > 1 /\ Len(candidates) >= 2 * teamSize) =>
        (selectReturn <=> Matchable(ElapsedDps))

\* C8 witness: a selection succeeds on a queue without healer in which fewer
\* than 2 * teamSize DPS have waited allDpsTimer.
C8_Witness ==
    /\ SelectOk /\ filterTalents /\ teamSize > 1
    /\ NumHealers(candidates) = 0
    /\ Cardinality(WaitedDps(allDpsTimer)) < 2 * teamSize

\* the first k positions, in queue order, of the set P of queue positions
OldestOf(P, k) == {i \in P : Cardinality({j \in P : j < i}) < k}

\* C9: with filterTalents, teamSize > 1 and exactly one healer queued, if at
\* least 2 * teamSize DPS have waited singleHealerDpsTimer the selection
\* succeeds with allDpsMatch set and is the oldest 2 * teamSize of those DPS,
\* in queue order; the healer is not in it.
C9_SingleHealerFallback ==
    ( /\ SelectDone /\ filterTalents /\ teamSize > 1
      /\ NumHealers(candidates) = 1
      /\ Cardinality(WaitedDps(singleHealerDpsTimer)) >= 2 * teamSize ) =>
        /\ selectReturn
        /\ allDpsMatch
        /\ Len(selected) = 2 * teamSize
        /\ {i \in 1..Len(candidates) : InSelected(candidates[i])}
               = OldestOf(WaitedDps(singleHealerDpsTimer), 2 * teamSize)
        /\ \A j \in 1..(Len(selected) - 1) : selected[j].id < selected[j + 1].id
        /\ NumHealers(selected) = 0

\* C9 witness: a 3v3 single-healer fallback on a queue of one healer and six
\* DPS that have all waited.
C9_Witness ==
    /\ SelectOk /\ filterTalents /\ teamSize = 3 /\ allDpsMatch
    /\ NumHealers(candidates) = 1
    /\ Cardinality(WaitedDps(singleHealerDpsTimer)) = 6

\* a single-healer fallback that has more waiting DPS than it takes
C9_WitnessSurplus ==
    /\ SelectOk /\ filterTalents /\ teamSize = 2 /\ allDpsMatch
    /\ NumHealers(candidates) = 1
    /\ Cardinality(WaitedDps(singleHealerDpsTimer)) > 4

\* C10: on a queue of fewer than 2 * teamSize candidates the selection
\* fails, whatever the roles, join times, timers, now and filterTalents.
C10_MinimumPool ==
    (SelectDone /\ Len(candidates) < 2 * teamSize) =>
        (~selectReturn /\ selected = <<>> /\ ~allDpsMatch)

\* C10 witness: a failed 3v3 selection without filterTalents on five
\* candidates.
C10_Witness ==
    /\ SelectDone /\ ~selectReturn
    /\ teamSize = 3 /\ ~filterTalents
    /\ Len(candidates) = 5

\* C11: without filterTalents, on a queue of at least 2 * teamSize candidates
\* the selection succeeds, is the first 2 * teamSize candidates of the queue
\* in queue order, and leaves allDpsMatch false, whatever the roles, join
\* times, timers and now.
C11_NoRoleFilter ==
    (SelectDone /\ ~filterTalents /\ Len(candidates) >= 2 * teamSize) =>
        /\ selectReturn
        /\ selected = SubSeq(candidates, 1, 2 * teamSize)
        /\ ~allDpsMatch

\* C11 witness: a 3v3 selection without filterTalents from seven candidates
\* that begin with a DPS and hold a single healer, none of whom has waited
\* the timers.
C11_Witness ==
    /\ SelectOk /\ ~filterTalents /\ teamSize = 3
    /\ Len(candidates) = 7
    /\ candidates[1].role = "DPS"
    /\ NumHealers(selected) = 1
    /\ WaitedDps(allDpsTimer) = {}

Teams == {Team1, Team2}

\* members i, j of the list have the same class id
SameClass(i, j) == selected[i + 1].classId = selected[j + 1].classId

\* pairs i < j of one team
PairsOf(T) == {p \in T \X T : p[1] < p[2]}

\* C13: at preventClassStacking 1 with classStackMask 0, no team of a valid
\* split holds two members of the same non-zero class, whatever their roles.
C13_LevelOneNoDuplicates ==
    (ValidSplit /\ preventClassStacking = 1 /\ classStackMask = 0) =>
        \A T \in Teams : \A p \in PairsOf(T) :
            ~(SameClass(p[1], p[2]) /\ selected[p[1] + 1].classId # 0)

\* C13 witness: a valid 2v2 split at level 1, mask 0, that keeps a healer and
\* a DPS of the same non-zero class on different teams.
C13_Witness ==
    /\ ValidSplit /\ preventClassStacking = 1 /\ classStackMask = 0
    /\ teamSize = 2 /\ Len(selected) = 4
    /\ \E i \in Team1, j \in Team2 :
          /\ SameClass(i, j)
          /\ selected[i + 1].classId # 0
          /\ selected[i + 1].role # selected[j + 1].role

\* the mask bit of a class id, as a table
ClassBit(c) == IF c \in 1..9 THEN 2 ^ (c - 1) ELSE IF c = 11 THEN 1024 ELSE 0

\* the class id is subject to the filter under the call's classStackMask
MaskCovers(c) ==
    \/ classStackMask = 0
    \/ ClassBit(c) # 0 /\ (classStackMask \div ClassBit(c)) % 2 = 1

IsHealerAt(i) == selected[i + 1].role = "HEALER"

\* a same-class pair under the mask, at least one member being a healer
HealerPair(p) ==
    /\ SameClass(p[1], p[2])
    /\ MaskCovers(selected[p[1] + 1].classId)
    /\ (IsHealerAt(p[1]) \/ IsHealerAt(p[2]))

\* a same-class pair under the mask, both members being DPS
DpsPair(p) ==
    /\ SameClass(p[1], p[2])
    /\ MaskCovers(selected[p[1] + 1].classId)
    /\ ~IsHealerAt(p[1]) /\ ~IsHealerAt(p[2])

\* the first teams of the partitions that pass the role filter of the call
RoleChoices ==
    {S \in Team1Choices(Len(selected), teamSize) :
        PassesRoleFilter(S, Indices(Len(selected)) \ S, selected, filterTalents, allDpsMatch)}

\* neither S nor its complement holds a pair that satisfies Bad
FreeOf(S, Bad(_)) ==
    /\ \A p \in PairsOf(S) : ~Bad(p)
    /\ \A p \in PairsOf(Indices(Len(selected)) \ S) : ~Bad(p)

HealerLevels == {5, 6}

\* C14: at preventClassStacking 5 or 6 a partition is rejected by the class
\* filter exactly when a team holds a same-class pair under the mask with at
\* least one healer; two DPS of one class on a team do not reject it.  So
\* the split is valid exactly when some role-passing partition has no such
\* healer pair, and a valid split has none.
C14_HealerPairsOnly ==
    (SplitDone /\ preventClassStacking \in HealerLevels /\ Len(selected) >= 2 * teamSize) =>
        /\ result.valid <=> (\E S \in RoleChoices : FreeOf(S, HealerPair))
        /\ result.valid => FreeOf(Team1, HealerPair)

\* C14, what the code does: at levels 5 and 6 every same-class pair under the
\* mask rejects the partition, two DPS included.
C14_AnyPair ==
    (SplitDone /\ preventClassStacking \in HealerLevels /\ Len(selected) >= 2 * teamSize) =>
        /\ result.valid <=>
              (\E S \in RoleChoices : FreeOf(S, HealerPair) /\ FreeOf(S, DpsPair))
        /\ result.valid => (FreeOf(Team1, HealerPair) /\ FreeOf(Team1, DpsPair))

\* C14 witness: at level 5 or 6 the split is invalid although a role-passing
\* partition has no same-class pair with a healer: only DPS pairs stand in
\* the way.
C14_Witness ==
    /\ SplitDone /\ ~result.valid
    /\ preventClassStacking \in HealerLevels
    /\ teamSize = 2 /\ Len(selected) = 4
    /\ \E S \in RoleChoices : FreeOf(S, HealerPair)

DpsLevels == {2, 3, 4}

\* C15: at preventClassStacking 2, 3 or 4 a partition is rejected by the
\* class filter exactly when a team holds two DPS of one class under the
\* mask: the split is valid exactly when some role-passing partition has no
\* such pair, and a valid split has none; same-class pairs with a healer do
\* not count.
C15_DpsPairsOnly ==
    (SplitDone /\ preventClassStacking \in DpsLevels /\ Len(selected) >= 2 * teamSize) =>
        /\ result.valid <=> (\E S \in RoleChoices : FreeOf(S, DpsPair))
        /\ result.valid => FreeOf(Team1, DpsPair)

\* C15 witness: a valid 2v2 split at level 2, 3 or 4 in which a team holds a
\* same-class pair with a healer under the mask, while two same-class DPS
\* of the list are on different teams.
C15_Witness ==
    /\ ValidSplit /\ preventClassStacking \in DpsLevels
    /\ teamSize = 2 /\ Len(selected) = 4
    /\ \E T \in Teams : \E p \in PairsOf(T) : HealerPair(p)
    /\ \E i \in Team1, j \in Team2 :
          /\ SameClass(i, j) /\ selected[i + 1].classId # 0
          /\ ~IsHealerAt(i) /\ ~IsHealerAt(j)

\* a same-class pair whose class is subject to the filter under the mask
CoveredPair(p) == SameClass(p[1], p[2]) /\ MaskCovers(selected[p[1] + 1].classId)

\* a same-class pair of any class
AnySameClassPair(p) == SameClass(p[1], p[2])

\* C16: with preventClassStacking >= 1 and classStackMask # 0 only pairs of
\* a class whose bit is set in the mask can reject a partition: a list with
\* a role-passing partition free of such pairs splits validly, duplicates of
\* other classes notwithstanding.  At level 1, where every role counts, the
\* split is valid exactly when such a partition exists, and with mask 0 this
\* means a partition free of any same-class pair.
C16_MaskScope ==
    (SplitDone /\ preventClassStacking >= 1 /\ Len(selected) >= 2 * teamSize) =>
        /\ (\E S \in RoleChoices : FreeOf(S, CoveredPair)) => result.valid
        /\ preventClassStacking = 1 =>
              /\ result.valid <=> (\E S \in RoleChoices : FreeOf(S, CoveredPair))
              /\ result.valid => FreeOf(Team1, CoveredPair)
              /\ (result.valid /\ classStackMask = 0) => FreeOf(Team1, AnySameClassPair)

\* C16 witness: a valid split under a non-zero mask at level 1 with a team
\* that holds two members of a class outside the mask, while two members of
\* a class inside the mask are on different teams.
C16_Witness ==
    /\ ValidSplit /\ preventClassStacking = 1 /\ classStackMask # 0
    /\ \E T \in Teams : \E p \in PairsOf(T) :
          /\ SameClass(p[1], p[2])
          /\ selected[p[1] + 1].classId # 0
          /\ ~MaskCovers(selected[p[1] + 1].classId)
    /\ \E i \in Team1, j \in Team2 :
          SameClass(i, j) /\ MaskCovers(selected[i + 1].classId)

\* the list with every class id replaced by c
Retagged(sel, c) == [k \in 1..Len(sel) |-> [sel[k] EXCEPT !.classId = c]]

\* C17: at preventClassStacking 0 the class ids and the mask are ignored:
\* the call returns what the call on the same list with every class id
\* replaced by one and the same id (0, or 1) and with mask 0 returns, so any
\* two calls that differ only in class ids and mask return the same valid
\* flag, index lists and mmrDiff.
C17_ClassIgnoredAtZero ==
    (SplitDone /\ preventClassStacking = 0) =>
        /\ result = FindBestTeamSplit(Retagged(selected, 0), teamSize, filterTalents,
                                      allDpsMatch, 0, 0)
        /\ result = FindBestTeamSplit(Retagged(selected, 1), teamSize, filterTalents,
                                      allDpsMatch, 0, 0)

\* C17 witness: a valid 3v3 split at level 0 under a non-zero mask whose
\* first team holds two members of one class covered by the mask.
C17_Witness ==
    /\ ValidSplit /\ preventClassStacking = 0 /\ classStackMask # 0
    /\ teamSize = 3 /\ Len(selected) = 6
    /\ \E p \in PairsOf(Team1) : CoveredPair(p)

\* S comes before T in the lexicographic order of increasing index lists
\* (S and T of equal size): the least index in one but not both is in S
LexBefore(S, T) ==
    /\ S # T
    /\ \E i \in S \ T : \A j \in T \ S : i < j

\* C18: team 1 of a valid split is an increasing index list and is the first,
\* in lexicographic order, of the filter-passing combinations of least
\* rating difference: no passing combination of the same difference comes
\* before it, so the index lists are determined by the call's arguments.
C18_FirstBestKept ==
    (ValidSplit /\ Len(selected) >= 2 * teamSize) =>
        /\ \A k \in 1..(Len(result.team1Indices) - 1) :
              result.team1Indices[k] < result.team1Indices[k + 1]
        /\ Team1 \in PassingChoices
        /\ \A S \in PassingChoices :
              RatingDiff(S, Indices(Len(selected)) \ S, selected) = result.mmrDiff
                  => ~LexBefore(S, Team1)

\* C18 witness: a valid 3v3 split for which a later combination, other than
\* the complement of team 1, passes the filters with the same difference.
C18_Witness ==
    /\ ValidSplit /\ teamSize = 3 /\ Len(selected) = 6
    /\ \E S \in PassingChoices :
          /\ RatingDiff(S, Indices(6) \ S, selected) = result.mmrDiff
          /\ LexBefore(Team1, S)
          /\ S # Team2
          /\ \E T \in PassingChoices :
                RatingDiff(T, Indices(6) \ T, selected) > result.mmrDiff /\ LexBefore(T, Team1)

(***************************************************************************)
(* Properties of Solo3v3::EnumerateCombinations.                           *)
(***************************************************************************)
EnumDone == pc = "enumerate"

\* the other team of first team S
Rest(S) == Indices(Len(selected)) \ S

\* the first teams of the partitions that pass the composition test
SoloPassing ==
    {S \in Team1Choices(Len(selected), teamSize) :
        PassesRoleFilter(S, Rest(S), selected, filterTalents, allDpsMatch)}

\* members i, j of the list: one has the other on the ignore list
IgnorePair(i, j) ==
    \/ <<selected[i + 1].id, selected[j + 1].id>> \in ignores
    \/ <<selected[j + 1].id, selected[i + 1].id>> \in ignores

\* same-team ignore pairs of the partition with first team S
IgnoreCount(S) ==
    IF avoidIgnore
    THEN Cardinality({p \in PairsOf(S) : IgnorePair(p[1], p[2])})
         + Cardinality({p \in PairsOf(Rest(S)) : IgnorePair(p[1], p[2])})
    ELSE 0

BestTeam1 == SeqToSet(best.bestTeam1)

\* C19: the partition EnumerateCombinations ends with passes the composition
\* test, has the least rating difference of all passing partitions (the
\* difference is never made worse to avoid an ignore pair) and, among the
\* passing partitions of that difference, the least number of same-team
\* ignore pairs; bestDiff and bestIgnores are its difference and count.
C19_IgnoreTieBreak ==
    EnumDone =>
        /\ best.haveBest <=> (SoloPassing # {})
        /\ best.haveBest =>
              /\ BestTeam1 \in SoloPassing
              /\ best.bestDiff = RatingDiff(BestTeam1, Rest(BestTeam1), selected)
              /\ best.bestIgnores = IgnoreCount(BestTeam1)
              /\ \A S \in SoloPassing :
                    /\ best.bestDiff <= RatingDiff(S, Rest(S), selected)
                    /\ RatingDiff(S, Rest(S), selected) = best.bestDiff
                           => best.bestIgnores <= IgnoreCount(S)

\* C19 witness: a 3v3 search that ends with a partition holding an ignore
\* pair although a passing partition without any has a greater difference,
\* and that passed over an earlier partition of the same difference with
\* more ignore pairs.
C19_Witness ==
    /\ EnumDone /\ best.haveBest /\ teamSize = 3 /\ avoidIgnore /\ filterTalents
    /\ best.bestIgnores > 0
    /\ \E S \in SoloPassing :
          /\ IgnoreCount(S) = 0
          /\ RatingDiff(S, Rest(S), selected) > best.bestDiff
    /\ \E S \in SoloPassing :
          /\ RatingDiff(S, Rest(S), selected) = best.bestDiff
          /\ IgnoreCount(S) > best.bestIgnores
          /\ LexBefore(S, BestTeam1)

(***************************************************************************)
(* The split against the naive split.                                      *)
(***************************************************************************)
\* a role-enforced call without class filter on 2 * teamSize candidates, the
\* two healers first and DPS behind them
HealersFirstCall ==
    /\ SplitDone /\ filterTalents /\ ~allDpsMatch /\ preventClassStacking = 0
    /\ teamSize > 1 /\ Len(selected) = 2 * teamSize
    /\ \A k \in 1..Len(selected) : (selected[k].role = "HEALER") <=> (k <= 2)

\* the naive split: the first teamSize indices against the last teamSize
NaiveTeam1 == 0..(teamSize - 1)

\* the naive split that keeps the roles: index 0 and the first teamSize - 1
\* DPS against index 1 and the last teamSize - 1 DPS
NaiveRoleTeam1 == {0} \cup (2..teamSize)

MaskDone == pc = "maskbit"

ValidClassIds == (1..9) \cup {11}

\* 1 << k written out as a table
PowerOfTwo == <<1, 2, 4, 8, 16, 32, 64, 128, 256, 512, 1024>>

ExpectedBit(t) ==
    IF t \in 1..9 THEN PowerOfTwo[t]
    ELSE IF t = 11 THEN PowerOfTwo[11]
    ELSE 0

C21_MaskBitTable ==
    MaskDone =>
        /\ \A k \in 1..2 : maskBitRet[k] = ExpectedBit(classIdArg[k])
        /\ \A k \in 1..2 : classIdArg[k] \in ValidClassIds => maskBitRet[k] # 0
        /\ (classIdArg[1] \in ValidClassIds /\ classIdArg[2] \in ValidClassIds
               /\ classIdArg[1] # classIdArg[2]) => maskBitRet[1] # maskBitRet[2]

\* the druid and the unused slot 10 in one state
C21_Witness == MaskDone /\ classIdArg = <<11, 10>> /\ maskBitRet = <<1024, 0>>

(***************************************************************************)
(* C22: candidates with class id 0 never conflict: at every level 1..6 and *)
(* every mask (0 included) a list whose candidates all have class id 0     *)
(* gets the result it gets at level 0.                                     *)
(***************************************************************************)
AllClassZero == \A k \in 1..Len(selected) : selected[k].classId = 0

LevelZeroResult == FindBestTeamSplit(selected, teamSize, filterTalents, allDpsMatch, 0, 0)

C22_ClassZeroNeverConflicts ==
    (SplitDone /\ AllClassZero /\ preventClassStacking \in 1..6) => result = LevelZeroResult

\* C22, what the code does: class id 0 is exempt only under a non-zero
\* mask (its bit is 0, so no mask covers it); under mask 0 two candidates
\* with class id 0 conflict like those of any other class.
C22_ClassZeroExemptUnderMask ==
    (SplitDone /\ AllClassZero /\ preventClassStacking \in 1..6) =>
        /\ classStackMask # 0 => result = LevelZeroResult
        /\ (classStackMask = 0 /\ preventClassStacking = 1 /\ teamSize > 1) => ~result.valid

\* C22 witness: four candidates without a class, 2v2, level 1, mask 0: the
\* call finds no split although the same call at level 0 finds one.
C22_Witness ==
    /\ SplitDone /\ AllClassZero /\ Len(selected) = 4 /\ teamSize = 2
    /\ preventClassStacking = 1 /\ classStackMask = 0 /\ ~filterTalents
    /\ ~result.valid
    /\ LevelZeroResult.valid

(***************************************************************************)
(* C23: select and split compose for every team size: whenever select      *)
(* succeeds, split on its output with the same teamSize and enforceRoles,  *)
(* allDpsMatch = usedFallback and no class filter returns valid = true,    *)
(* also at teamSize 1.                                                     *)
(***************************************************************************)
PipelineDone == pc = "pipeline"

C23_PipelineComposes == (PipelineDone /\ selectReturn) => result.valid

\* C23, what the code does: the split of a successful selection is valid
\* except at teamSize 1 under role enforcement on the standard path, where
\* select takes two DPS and the split still asks for one healer per team.
C23_PipelineComposesAboveOne ==
    (PipelineDone /\ selectReturn) =>
        (result.valid <=> ~(filterTalents /\ teamSize = 1 /\ ~allDpsMatch))

\* C23 witness: 1v1 with role enforcement: two DPS selected on the standard
\* path, no split found.
C23_Witness ==
    /\ PipelineDone /\ selectReturn /\ teamSize = 1 /\ filterTalents /\ ~allDpsMatch
    /\ Len(selected) = 2 /\ \A k \in 1..2 : selected[k].role = "DPS"
    /\ ~result.valid

(***************************************************************************)
(* C24: in CheckSolo3v3Arena with FilterTalents on and a team size of 3,   *)
(* a tick that collects exactly one healer forms no match, however many    *)
(* DPS are queued and however long they have waited; the same holds for    *)
(* SelectCandidates without the single-healer timer.                       *)
(***************************************************************************)
TickDone == pc = "tick"

CollectedHealers == {k \in 1..Len(allCandidates) : allCandidates[k].role = "HEALER"}

CollectedDps == {k \in 1..Len(allCandidates) : allCandidates[k].role # "HEALER"}

\* the collected candidates as the composer sees them
AsQueuedCandidates ==
    [k \in 1..Len(allCandidates) |->
        QueuedCandidate(allCandidates[k].id,
            IF allCandidates[k].role = "HEALER" THEN "HEALER" ELSE "DPS",
            allCandidates[k].mmr,
            ToU32(GroupById(queuedAtEntry, allCandidates[k].group).JoinTime), 0)]

OneHealerTick ==
    /\ TickDone /\ filterTalents /\ teamSize = 3
    /\ Cardinality(CollectedHealers) = 1

CollectedGroup(k) == GroupById(queuedAtEntry, allCandidates[k].group)

C25_ArrivalOrder ==
    TickDone =>
        \A i \in 1..Len(allCandidates), j \in 1..Len(allCandidates) :
            CollectedGroup(i).JoinTime < CollectedGroup(j).JoinTime => i < j

\* C25, what the code does: the list is the Alliance bucket followed by the
\* Horde bucket; arrival order holds inside each bucket only.
C25_ArrivalOrderPerBucket ==
    TickDone =>
        \A i \in 1..Len(allCandidates), j \in 1..Len(allCandidates) :
            /\ (CollectedGroup(i).teamId = CollectedGroup(j).teamId
                  /\ CollectedGroup(i).JoinTime < CollectedGroup(j).JoinTime) => i < j
            /\ (CollectedGroup(i).teamId = TEAM_ALLIANCE
                  /\ CollectedGroup(j).teamId = TEAM_HORDE) => i < j

\* C25 witness: the oldest group of the queue is a Horde group and is left
\* out of a match made of Alliance groups that joined later.
C25_Witness ==
    /\ TickDone /\ tickReturn /\ teamSize = 1 /\ Len(allCandidates) = 3
    /\ CollectedGroup(3).teamId = TEAM_HORDE /\ CollectedGroup(3).JoinTime = 0
    /\ CollectedGroup(1).JoinTime = 1000 /\ CollectedGroup(2).JoinTime = 1000
    /\ \A k \in 1..Len(selected) : selected[k].group # allCandidates[3].group

(***************************************************************************)
(* C26: a tick that forms no match leaves the queue untouched: when        *)
(* CheckSolo3v3Arena returns false, no group's teamId or GroupType has     *)
(* changed and every bucket holds the same groups in the same order as     *)
(* before the call.                                                        *)
(***************************************************************************)
TickFailed == TickDone /\ ~tickReturn

C26_FailedTickKeepsQueue ==
    TickFailed => \A b \in BucketIds : queuedGroups[b] = queuedAtEntry[b]

\* C26 witness: a tick that selected candidates, found no partition and
\* returned false, on a queue with groups in both faction buckets.
C26_Witness ==
    /\ TickFailed /\ selected # <<>>
    /\ \E g \in 1..Len(QueuedSeq(queuedGroups)) :
          QueuedSeq(queuedGroups)[g].teamId = TEAM_ALLIANCE
    /\ \E g \in 1..Len(QueuedSeq(queuedGroups)) :
          QueuedSeq(queuedGroups)[g].teamId = TEAM_HORDE

\* C26 witness: a tick that failed on an unbalanced composition (one healer)
\* after an earlier tick had formed a match.
C26_WitnessUnbalanced ==
    /\ TickFailed /\ filterTalents /\ Cardinality(CollectedHealers) = 1
    /\ Len(allCandidates) >= 2 * teamSize
    /\ \E g \in 1..Len(QueuedSeq(queuedGroups)) :
          QueuedSeq(queuedGroups)[g].IsInvitedToBGInstanceGUID

(***************************************************************************)
(* C27: after AssignToPool has processed a team, every group of that team  *)
(* is in exactly one bucket, the bucket of the pool's team, with teamId    *)
(* and GroupType to match; a group that changed faction has left its       *)
(* source bucket and sits in the destination bucket after all entries with *)
(* JoinTime <= its own, so a bucket sorted by JoinTime stays sorted; and   *)
(* each group of the team was added to the team's selection pool exactly   *)
(* once.                                                                   *)
(***************************************************************************)
TickSucceeded == TickDone /\ tickReturn

\* the bucket of a team in this queue
BucketOf(tm) ==
    IF tm = TEAM_ALLIANCE THEN AllianceGroupType(isRated) ELSE HordeGroupType(isRated)

\* indices into selected of the two teams of the match
TeamIndices(tm) ==
    IF tm = TEAM_ALLIANCE THEN SeqToSet(best.bestTeam1)
    ELSE (0..(Len(selected) - 1)) \ SeqToSet(best.bestTeam1)

\* ids of the groups of a team
TeamGroups(tm) == {selected[i + 1].group : i \in TeamIndices(tm)}

\* positions of group id in bucket b
PositionsIn(q, b, id) == {k \in 1..Len(q[b]) : q[b][k].id = id}

\* groups whose faction was changed by the tick
MovedGroups ==
    {id \in TeamGroups(TEAM_ALLIANCE) \cup TeamGroups(TEAM_HORDE) :
        GroupById(queuedAtEntry, id).teamId # GroupById(queuedGroups, id).teamId}

SortedByJoinTime(list) ==
    \A i \in 1..Len(list), j \in 1..Len(list) : i < j => list[i].JoinTime <= list[j].JoinTime

BucketsSorted == \A b \in BucketIds : SortedByJoinTime(queuedGroups[b])

\* every queued group sits once, in the bucket of its teamId (so the
\* std::find of AssignToPool finds it in srcList)
GroupsFiled ==
    \A b \in BucketIds : \A k \in 1..Len(queuedGroups[b]) :
        LET g == queuedGroups[b][k]
        IN  /\ b = BucketOf(g.teamId) /\ g.GroupType = b
            /\ \A b2 \in BucketIds : \A k2 \in 1..Len(queuedGroups[b2]) :
                  queuedGroups[b2][k2].id = g.id => (b2 = b /\ k2 = k)

\* the groups of team tm are filed in the bucket of tm and nowhere else
FiledWithTeam(tm) ==
    \A id \in TeamGroups(tm) :
        /\ Cardinality(PositionsIn(queuedGroups, BucketOf(tm), id)) = 1
        /\ \A b \in BucketIds \ {BucketOf(tm)} : PositionsIn(queuedGroups, b, id) = {}
        /\ GroupById(queuedGroups, id).teamId = tm
        /\ GroupById(queuedGroups, id).GroupType = BucketOf(tm)

\* a moved group stands after every entry that joined no later, except for
\* groups moved by the same tick with the same JoinTime
InsertedInOrder(tm) ==
    \A id \in TeamGroups(tm) \cap MovedGroups :
        LET list == queuedGroups[BucketOf(tm)]
            p    == CHOOSE k \in 1..Len(list) : list[k].id = id
        IN  /\ \A k \in 1..(p - 1) : list[k].JoinTime <= list[p].JoinTime
            /\ \A k \in (p + 1)..Len(list) :
                  \/ list[k].JoinTime > list[p].JoinTime
                  \/ list[k].id \in MovedGroups

\* the groups that stayed keep their order
OthersKeepOrder ==
    \A b \in BucketIds :
        SelectSeq(queuedGroups[b], LAMBDA g : g.id \notin MovedGroups)
            = SelectSeq(queuedAtEntry[b], LAMBDA g : g.id \notin MovedGroups)

\* the pool of tm holds each group of the team once and nothing else
PooledOnce(tm) ==
    /\ Len(selectionPools[tm]) = teamSize
    /\ SeqToSet(selectionPools[tm]) = TeamGroups(tm)
    /\ Cardinality(TeamGroups(tm)) = teamSize

C27_AssignToPool ==
    /\ BucketsSorted
    /\ GroupsFiled
    /\ TickSucceeded =>
          \A tm \in TeamIds :
              FiledWithTeam(tm) /\ InsertedInOrder(tm) /\ PooledOnce(tm)
    /\ TickSucceeded => OthersKeepOrder

\* C27 witness: a 3v3 match in which a group changed faction and was put
\* between two groups of the destination bucket, before one that joined later.
C27_Witness ==
    /\ TickSucceeded /\ teamSize = 3
    /\ \E id \in MovedGroups :
          LET g    == GroupById(queuedGroups, id)
              list == queuedGroups[g.GroupType]
              p    == CHOOSE k \in 1..Len(list) : list[k].id = id
          IN  /\ 1 < p /\ p < Len(list)
              /\ list[p + 1].JoinTime > g.JoinTime
              /\ list[p + 1].id \notin MovedGroups
              /\ list[p - 1].id \notin MovedGroups

(***************************************************************************)
(* C28: the healer quota is relaxed only when it cannot be met: whenever   *)
(* select returns usedFallback = true the pool holds fewer than 2 healers  *)
(* and the result holds no healer; a pool with at least 2 healers and at   *)
(* least 2 * teamSize - 2 DPS is always matched through the standard path, *)
(* never as an all-DPS match.                                              *)
(***************************************************************************)
FallbackOnlyWithoutHealers ==
    (SelectDone /\ allDpsMatch) =>
        /\ selectReturn
        /\ NumHealers(candidates) < 2
        /\ NumHealers(selected) = 0

C28_QuotaRelaxedOnlyIfUnmet ==
    /\ FallbackOnlyWithoutHealers
    /\ (SelectDone /\ NumHealers(candidates) >= 2
           /\ NumDps(candidates) >= 2 * teamSize - 2) =>
          (selectReturn /\ ~allDpsMatch)

\* C28 with the pool that the standard path asks for at each team size: 2
\* healers and 2 * teamSize - 2 DPS above team size 1, and 2 DPS (healers
\* do not count) at team size 1.
C28_QuotaRelaxedOnlyIfUnmetAboveOne ==
    /\ FallbackOnlyWithoutHealers
    /\ (SelectDone /\ teamSize > 1 /\ NumHealers(candidates) >= 2
           /\ NumDps(candidates) >= 2 * teamSize - 2) =>
          (selectReturn /\ ~allDpsMatch /\ (filterTalents => NumHealers(selected) = 2))
    /\ (SelectDone /\ teamSize = 1 /\ NumDps(candidates) >= 2) =>
          (selectReturn /\ ~allDpsMatch /\ (filterTalents => NumHealers(selected) = 0))
    /\ (SelectDone /\ teamSize = 1 /\ filterTalents /\ NumDps(candidates) < 2) =>
          ~selectReturn

\* C28 witness: an all-DPS 3v3 match made while one healer is queued.
C28_Witness ==
    /\ SelectDone /\ allDpsMatch /\ teamSize = 3
    /\ NumHealers(candidates) = 1 /\ NumHealers(selected) = 0

\* C28 witness: two healers queued at team size 1 under role enforcement, no match.
C28_WitnessOneVsOne ==
    /\ SelectDone /\ teamSize = 1 /\ filterTalents /\ ~selectReturn
    /\ NumHealers(candidates) >= 2 /\ NumDps(candidates) = 0

(***************************************************************************)
(* C29: retry by re-invocation makes progress: for a fixed pool with no    *)
(* healers and at least 2 * teamSize DPS, fixed timers and a clock that    *)
(* does not go back and does not wrap, role-enforced select succeeds at    *)
(* the first tick where now >= joinTime + noHealerTimer holds for          *)
(* 2 * teamSize DPS and at every later tick; a success is never followed   *)
(* by a failure on the same pool at a later time.                          *)
(***************************************************************************)
RetryDone == pc = "retry"

\* no sum joinTime + timer of the pool passes 2^32 - 1
NoWraparound ==
    \A k \in 1..Len(candidates) :
        ~ExactSumGt(candidates[k].joinTime, allDpsTimer, U32(Half - 1, Half - 1))

HealerlessPool ==
    /\ RetryDone /\ NoWraparound
    /\ NumHealers(candidates) = 0 /\ NumDps(candidates) >= 2 * teamSize

\* DPS of the pool that have waited allDpsTimer at time t, in exact arithmetic
WaitedBy(t) ==
    {k \in 1..Len(candidates) : ~ExactSumGt(candidates[k].joinTime, allDpsTimer, t)}

SucceedsOnceWaited ==
    (HealerlessPool /\ Cardinality(WaitedBy(now)) >= 2 * teamSize) =>
        (selectReturn /\ Len(selected) = 2 * teamSize)

SuccessStays ==
    (HealerlessPool /\ selectReturn /\ pc' = "retry") => selectReturn'

C29_RetryProgress == []SucceedsOnceWaited /\ [][SuccessStays]_vars

\* C29 witness: a 3v3 pool of six DPS whose retry failed at 30000 ms and
\* succeeded, by the all-DPS fallback, at a later tick.
C29_Witness ==
    /\ HealerlessPool /\ teamSize = 3 /\ selectReturn /\ allDpsMatch
    /\ now = U32(0, 65000) /\ allDpsTimer = U32(0, 60000)
    /\ Cardinality(WaitedBy(U32(0, 30000))) < 6

(***************************************************************************)
(* C30: side assignment is fixed by position: when len(selected) is        *)
(* 2 * teamSize and split returns valid, team1Indices contains index 0, so *)
(* on the standard path the oldest selected healer is placed on team 1.    *)
(***************************************************************************)
FullSplit == SplitDone /\ result.valid /\ Len(selected) = 2 * teamSize

C30_IndexZeroOnTeam1 ==
    FullSplit =>
        /\ 0 \in SeqToSet(result.team1Indices)
        /\ result.team1Indices[1] = 0
        /\ 0 \notin SeqToSet(result.team2Indices)

\* C30 witness: a role-enforced 3v3 split with the class filter on, whose
\* first candidate is a healer placed on team 1 although the teams differ
\* in rating.
C30_Witness ==
    /\ FullSplit /\ teamSize = 3 /\ filterTalents /\ ~allDpsMatch
    /\ preventClassStacking > 0
    /\ selected[1].role = "HEALER"
    /\ result.team1Indices[1] = 0
    /\ result.mmrDiff > 0

====
